---- MODULE Spec2Model ----
(***************************************************************************)
(* Duplicate-snapshot change-log reconstruction (tools/find_diff_2.py).    *)
(*                                                                         *)
(* The script loads every policy_id that has more than one landing row,    *)
(* ordered by (policy_id, ingested_at), and for each policy_id compares    *)
(* each record with its predecessor through DeepDiff, turning the          *)
(* "values_changed" part of each diff into report rows.                    *)
(*                                                                         *)
(* Python values are modelled as tagged records of one uniform shape       *)
(*   [t |-> type tag, s |-> characters, l |-> list items, d |-> mapping]   *)
(* so that values of different Python types can be compared.  Text is a    *)
(* sequence of one-character strings, which lets str.strip() be modelled   *)
(* by what it does.                                                        *)
(***************************************************************************)
EXTENDS Integers, Sequences, FiniteSets, TLC

VARIABLES
    pc,              \* position of the running script / harness
    df,              \* the loaded frame: sequence of [policy_id, records]
    gi,              \* index of the group the groupby loop is at
    records,         \* group.to_dict(orient="records") of the current group
    base,            \* find_diff_2.py: base
    base_change_dt,  \* find_diff_2.py: base_change_dt
    idx,             \* enumerate(records[1:], start=2) position
    diff_rows,       \* find_diff_2.py: diff_rows
    calls,           \* log of the DeepDiff(base, other) calls made so far
    rec_in,          \* argument of pick_change_dt
    dt_out,          \* result of pick_change_dt
    path_a, path_b,  \* two DeepDiff paths given to path_to_field
    field_a, field_b,\* the two results of path_to_field
    t1, t2,          \* the two records given to one DeepDiff comparison
    dd_rows,         \* rows the compare-loop body emits for (t1, t2)
    diff_rows_1,     \* find_diff_1.py: diff_rows
    _data,           \* MissingCodeTracker._data: field -> set of codes
    _limit,          \* MissingCodeTracker._limit
    last_add         \* the arguments of the latest MissingCodeTracker.add call

vars == <<pc, df, gi, records, base, base_change_dt, idx, diff_rows, calls,
          rec_in, dt_out, path_a, path_b, field_a, field_b, t1, t2, dd_rows,
          diff_rows_1, _data, _limit, last_add>>

seqVars  == <<df, gi, records, base, base_change_dt, idx, diff_rows, calls>>
dtVars   == <<rec_in, dt_out>>
pathVars == <<path_a, path_b, field_a, field_b>>
ddVars   == <<t1, t2, dd_rows>>
fd1Vars  == <<diff_rows_1>>
mctVars  == <<_data, _limit, last_add>>

-----------------------------------------------------------------------------
(* Bounds of the model. *)

MaxRows      == 4     \* most rows the query returns, all policy_ids together
MaxPathLen   == 2     \* most segments of a DeepDiff path given to path_to_field
MaxListLen   == 2     \* most items of a list value
MaxTextLen   == 2     \* most characters of a timestamp given as text

-----------------------------------------------------------------------------
(* Python values. *)

NoneV     == [t |-> "none", s |-> <<>>, l |-> <<>>, d |-> <<>>]
StrV(cs)   == [t |-> "str",  s |-> cs,   l |-> <<>>, d |-> <<>>]
IntV(cs)   == [t |-> "int",  s |-> cs,   l |-> <<>>, d |-> <<>>]
\* pandas.Timestamp / datetime.datetime: s holds the characters of str(value),
\* date and time separated by one space.
StampV(cs) == [t |-> "timestamp", s |-> cs, l |-> <<>>, d |-> <<>>]
DTimeV(cs) == [t |-> "datetime",  s |-> cs, l |-> <<>>, d |-> <<>>]
ListV(q)   == [t |-> "list", s |-> <<>>, l |-> q,    d |-> <<>>]
DictV(f)   == [t |-> "dict", s |-> <<>>, l |-> <<>>, d |-> f]

\* dict.get(key): the value, or None when the key is missing.
Get(rec, key) == IF key \in DOMAIN rec.d THEN rec.d[key] ELSE NoneV

\* Python truthiness, as used by the "or" of pick_change_dt.
Truthy(v) ==
    CASE v.t = "none" -> FALSE
      [] v.t = "str"  -> v.s # <<>>
      [] v.t = "int"  -> v.s # <<"0">>
      [] v.t = "list" -> v.l # <<>>
      [] v.t = "dict" -> DOMAIN v.d # {}
      [] OTHER        -> TRUE

Whitespace == {" ", "\t"}

RECURSIVE LStrip(_)
LStrip(cs) ==
    IF cs # <<>> /\ Head(cs) \in Whitespace THEN LStrip(Tail(cs)) ELSE cs

RECURSIVE RStrip(_)
RStrip(cs) ==
    IF cs # <<>> /\ cs[Len(cs)] \in Whitespace
    THEN RStrip(SubSeq(cs, 1, Len(cs) - 1))
    ELSE cs

\* str.strip()
PyStrip(cs) == RStrip(LStrip(cs))

\* datetime.isoformat(): the date and the time joined by "T" where str() puts
\* a space.
IsoFormat(cs) == [i \in 1..Len(cs) |-> IF cs[i] = " " THEN "T" ELSE cs[i]]

-----------------------------------------------------------------------------
(* pick_change_dt *)

pick_change_dt_swapped(record) ==
    LET a    == Get(record, "ingested_at")
        b    == Get(record, "lastMdfcnDt")
        cand == IF Truthy(a) THEN a ELSE b
    IN  CASE cand.t = "none"      -> NoneV
          [] cand.t = "timestamp" -> StrV(IsoFormat(cand.s))
          [] cand.t = "datetime"  -> StrV(IsoFormat(cand.s))
          [] OTHER                -> StrV(PyStrip(cand.s))

pick_change_dt(record) ==
    LET a    == Get(record, "lastMdfcnDt")
        b    == Get(record, "ingested_at")
        cand == IF Truthy(a) THEN a ELSE b      \* a or b
    IN  CASE cand.t = "none"      -> NoneV
          [] cand.t = "timestamp" -> StrV(IsoFormat(cand.s))
          [] cand.t = "datetime"  -> StrV(IsoFormat(cand.s))
          [] OTHER                -> StrV(PyStrip(cand.s))   \* str(cand).strip()

-----------------------------------------------------------------------------
(* DeepDiff paths and path_to_field.  A path is a sequence of segments, a   *)
(* dictionary key or a list index; DeepDiff renders it as root['a'][0].     *)

Key(name) == [key |-> TRUE,  name |-> name, i |-> 0]
Index(i)  == [key |-> FALSE, name |-> "",   i |-> i]

DigitStr == <<"0", "1", "2", "3", "4", "5", "6", "7", "8", "9">>

SegStr(seg) ==
    IF seg.key THEN "['" \o seg.name \o "']" ELSE "[" \o DigitStr[seg.i + 1] \o "]"

RECURSIVE SegsStr(_)
SegsStr(p) == IF p = <<>> THEN "" ELSE SegStr(Head(p)) \o SegsStr(Tail(p))

\* The string DeepDiff gives for a path.
PathStr(p) == "root" \o SegsStr(p)

\* re.findall(r"\['([^]]+)'\]", path): the quoted keys, in order; a list index
\* has no quotes and is not matched.
RECURSIVE ReFindAllKeys(_)
ReFindAllKeys(p) ==
    IF p = <<>> THEN <<>>
    ELSE IF Head(p).key THEN <<Head(p).name>> \o ReFindAllKeys(Tail(p))
         ELSE ReFindAllKeys(Tail(p))

\* ".".join(parts)
RECURSIVE Join(_)
Join(parts) ==
    IF parts = <<>> THEN ""
    ELSE IF Len(parts) = 1 THEN parts[1]
         ELSE parts[1] \o "." \o Join(Tail(parts))

\* The fallback branch, reached only by a path without any quoted key: the
\* three replace() calls remove the leading "root" and leave the indices.
path_fallback(p) == SegsStr(p)

path_to_field_keep_wrapper(p) ==
    LET parts == ReFindAllKeys(p)
    IN  IF parts # <<>> THEN Join(parts) ELSE path_fallback(p)

path_to_field(p) ==
    LET parts == ReFindAllKeys(p)
    IN  IF parts # <<>>
        THEN LET rest == IF parts[1] = "raw_json" THEN Tail(parts) ELSE parts
             IN  IF rest # <<>> THEN Join(rest) ELSE "root"
        ELSE path_fallback(p)

-----------------------------------------------------------------------------
(* DeepDiff(t1, t2, ignore_order=True, exclude_paths=[...]).                *)
(*                                                                          *)
(* The result is the sequence of its reports [kind, path, old, new]; kind   *)
(* is the name of the result section the report goes to.  The order of the  *)
(* reports inside one result is not significant to anything modelled here.  *)

no_exclude_paths == {}

exclude_paths ==
    { "root['lastMdfcnDt']", "root['frstRegDt']", "root['ingested_at']",
      "root['record_hash']", "root['raw_ingest_id']" }

Report(kind, p, old, new) == [kind |-> kind, path |-> p, old |-> old, new |-> new]

Range(q) == {q[i] : i \in DOMAIN q}

\* Index (0-based, as DeepDiff prints it) of the first occurrence of e in q.
FirstIndex(q, e) == (CHOOSE i \in DOMAIN q : q[i] = e /\ \A j \in 1..(i - 1) : q[j] # e) - 1

RECURSIVE SetToSeq(_)
SetToSeq(S) ==
    IF S = {} THEN <<>>
    ELSE LET e == CHOOSE e \in S : TRUE IN <<e>> \o SetToSeq(S \ {e})

Skipped(p) == PathStr(p) \in exclude_paths

RECURSIVE Diff(_, _, _, _)
RECURSIVE DiffKeys(_, _, _, _, _)
RECURSIVE DiffPairs(_, _, _, _, _)

\* Keys present in one dictionary only.
OnlyIn(kind, keys, holder, p, isOld) ==
    LET Rep(k) == IF isOld THEN Report(kind, p \o <<Key(k)>>, holder.d[k], NoneV)
                  ELSE Report(kind, p \o <<Key(k)>>, NoneV, holder.d[k])
        live   == SetToSeq({k \in keys : ~Skipped(p \o <<Key(k)>>)})
    IN  [i \in DOMAIN live |-> Rep(live[i])]

\* The keys both dictionaries have, one after the other.
DiffKeys(keys, a, b, p, m) ==
    IF keys = <<>> THEN <<>>
    ELSE Diff(a.d[Head(keys)], b.d[Head(keys)], p \o <<Key(Head(keys))>>, m)
         \o DiffKeys(Tail(keys), a, b, p, m)

DiffDict(a, b, p, m) ==
    LET ka == DOMAIN a.d
        kb == DOMAIN b.d
    IN  OnlyIn("dictionary_item_added", kb \ ka, b, p, FALSE)
        \o OnlyIn("dictionary_item_removed", ka \ kb, a, p, TRUE)
        \o DiffKeys(SetToSeq(ka \cap kb), a, b, p, m)

\* The removed/added items DeepDiff pairs up are compared with each other, at
\* the index of the removed one.
DiffPairs(prs, a, b, p, m) ==
    IF prs = <<>> THEN <<>>
    ELSE Diff(Head(prs)[1], Head(prs)[2],
              p \o <<Index(FirstIndex(a.l, Head(prs)[1]))>>, m)
         \o DiffPairs(Tail(prs), a, b, p, m)

\* ignore_order=True without report_repetition: the two lists are compared as
\* the sets of their items (by hash), so neither order nor repetition counts.
\* An item of one side only is "removed"/"added", unless DeepDiff pairs it
\* with an item of the other side (its distance heuristic, here the matching
\* m), in which case the pair is compared like two values at one path.
DiffList(a, b, p, m) ==
    LET removed == Range(a.l) \ Range(b.l)
        added   == Range(b.l) \ Range(a.l)
        paired  == {pr \in m : pr[1] \in removed /\ pr[2] \in added}
        lone_r  == SetToSeq({r \in removed : \A pr \in paired : pr[1] # r})
        lone_a  == SetToSeq({x \in added : \A pr \in paired : pr[2] # x})
    IN  DiffPairs(SetToSeq(paired), a, b, p, m)
        \o [i \in DOMAIN lone_a |->
              Report("iterable_item_added",
                     p \o <<Index(FirstIndex(b.l, lone_a[i]))>>, NoneV, lone_a[i])]
        \o [i \in DOMAIN lone_r |->
              Report("iterable_item_removed",
                     p \o <<Index(FirstIndex(a.l, lone_r[i]))>>, lone_r[i], NoneV)]

Diff(a, b, p, m) ==
    IF Skipped(p) THEN <<>>
    ELSE IF a.t # b.t THEN <<Report("type_changes", p, a, b)>>
    ELSE IF a.t = "dict" THEN DiffDict(a, b, p, m)
    ELSE IF a.t = "list" THEN DiffList(a, b, p, m)
    ELSE IF a = b THEN <<>>
    ELSE <<Report("values_changed", p, a, b)>>

DeepDiff(a, b, m) == Diff(a, b, <<>>, m)

\* The list items found anywhere in a value.
RECURSIVE ListItems(_)
ListItems(v) ==
    IF v.t = "list" THEN Range(v.l) \cup UNION {ListItems(v.l[i]) : i \in DOMAIN v.l}
    ELSE IF v.t = "dict" THEN UNION {ListItems(v.d[k]) : k \in DOMAIN v.d}
    ELSE {}

\* The pairings between the items of R and the items of A: each item in at
\* most one pair.
RECURSIVE Pairings(_, _)
Pairings(R, A) ==
    IF R = {} THEN {{}}
    ELSE LET r    == CHOOSE r \in R : TRUE
             rest == Pairings(R \ {r}, A)
         IN  rest \cup
             UNION {{m \cup {<<r, x>>} : x \in {x \in A : \A pr \in m : pr[2] # x}} :
                    m \in rest}

\* The pairings DeepDiff can make between list items of the two sides.
Matchings(a, b) == Pairings(ListItems(a) \ ListItems(b), ListItems(b) \ ListItems(a))

-----------------------------------------------------------------------------
(* The body of the compare loop of find_diff_2.py.                          *)

Row(policy_id, k, rep, base_dt, change_dt) ==
    [policy_id      |-> policy_id,
     compare_seq    |-> k,
     field          |-> path_to_field(rep.path),
     old_value      |-> rep.old,
     new_value      |-> rep.new,
     base_change_dt |-> base_dt,
     change_dt      |-> change_dt]

\* if "values_changed" in diff: for path, change in diff["values_changed"].items()
values_changed(diff) == SelectSeq(diff, LAMBDA rep : rep.kind = "values_changed")

compare_rows(policy_id, k, b, other, base_dt, m) ==
    LET diff      == DeepDiff(b, other, m)
        change_dt == pick_change_dt(other)
        changed   == values_changed(diff)
    IN  [i \in DOMAIN changed |-> Row(policy_id, k, changed[i], base_dt, change_dt)]

\* base = other ; base_change_dt = change_dt
next_base_keep(b, other) == b
next_base(b, other) == other

next_base_change_dt_keep(base_dt, change_dt) == base_dt
next_base_change_dt(base_dt, change_dt) == change_dt

-----------------------------------------------------------------------------
(* Inputs. *)

\* A key that is not in the dictionary at all.
Missing == [t |-> "missing", s |-> <<>>, l |-> <<>>, d |-> <<>>]

\* The dictionary of the given items, without the missing ones.
MkDict(items) == DictV([k \in {k \in DOMAIN items : items[k] # Missing} |-> items[k]])

SeqsUpTo(S, n) == UNION {[1..k -> S] : k \in 0..n}

\* ingested_at of the record at position pos of its group (a pandas
\* Timestamp); the query orders each group by it.
IngestedAt(pos) == StampV(<<DigitStr[pos + 1], " ", "0">>)

Snapshot(policy_id, pos, lastMdfcnDt, raw_json) ==
    MkDict([policy_id   |-> StrV(policy_id),
            ingested_at |-> IngestedAt(pos),
            lastMdfcnDt |-> lastMdfcnDt,
            raw_json    |-> raw_json])

Idle == "idle"

-----------------------------------------------------------------------------
(* pick_change_dt on one record. *)

TimeTexts == SeqsUpTo({" ", "m"}, MaxTextLen)

TimeValues ==
    {Missing, NoneV, StampV(<<"1", " ", "0">>), DTimeV(<<"2", " ", "0">>)}
    \cup {StrV(cs) : cs \in TimeTexts}

ResolveInputs ==
    {MkDict([lastMdfcnDt |-> a, ingested_at |-> b]) : a \in TimeValues, b \in TimeValues}

InitResolve ==
    /\ pc = "dt_start"
    /\ rec_in \in ResolveInputs
    /\ dt_out = NoneV
    /\ df = <<>> /\ gi = 0 /\ records = <<>> /\ base = NoneV /\ base_change_dt = NoneV
    /\ idx = 0 /\ diff_rows = <<>> /\ calls = <<>>
    /\ path_a = <<>> /\ path_b = <<>> /\ field_a = Idle /\ field_b = Idle
    /\ t1 = NoneV /\ t2 = NoneV /\ dd_rows = <<>>
    /\ diff_rows_1 = <<>> /\ _data = <<>> /\ _limit = 0 /\ last_add = Idle

Resolve ==
    /\ pc = "dt_start"
    /\ dt_out' = pick_change_dt(rec_in)
    /\ pc' = "dt_done"
    /\ UNCHANGED <<rec_in, seqVars, pathVars, ddVars, fd1Vars, mctVars>>

SpecResolve == InitResolve /\ [][Resolve]_vars

-----------------------------------------------------------------------------
(* path_to_field on two paths. *)

DottedKeys == {"a.b"}
Segments ==
    {Key("a"), Key("b"), Key("raw_json"), Index(0), Index(1)}
    \cup {Key(k) : k \in DottedKeys}

Paths == SeqsUpTo(Segments, MaxPathLen)

InitFormat ==
    /\ pc = "fmt_start"
    /\ path_a \in Paths /\ path_b \in Paths
    /\ field_a = Idle /\ field_b = Idle
    /\ df = <<>> /\ gi = 0 /\ records = <<>> /\ base = NoneV /\ base_change_dt = NoneV
    /\ idx = 0 /\ diff_rows = <<>> /\ calls = <<>>
    /\ rec_in = NoneV /\ dt_out = NoneV
    /\ t1 = NoneV /\ t2 = NoneV /\ dd_rows = <<>>
    /\ diff_rows_1 = <<>> /\ _data = <<>> /\ _limit = 0 /\ last_add = Idle

Format ==
    /\ pc = "fmt_start"
    /\ field_a' = path_to_field(path_a)
    /\ field_b' = path_to_field(path_b)
    /\ pc' = "fmt_done"
    /\ UNCHANGED <<path_a, path_b, seqVars, dtVars, ddVars, fd1Vars, mctVars>>

SpecFormat == InitFormat /\ [][Format]_vars

-----------------------------------------------------------------------------
(* One pass of the compare-loop body on two records of one policy_id. *)

TagItems == {StrV(<<"a">>), StrV(<<"b">>), StrV(<<"c">>)}

XValues ==
    {Missing, NoneV, IntV(<<"1">>), IntV(<<"2">>), StrV(<<"1">>),
     DictV([y |-> IntV(<<"1">>)])}

NestedStamps == {StrV(<<"m", "1">>), StrV(<<"m", "2">>)}

RawJsons ==
    {MkDict([x |-> x, tags |-> ListV(tags), lastMdfcnDt |-> lm]) :
        x \in XValues, tags \in SeqsUpTo(TagItems, MaxListLen), lm \in NestedStamps}

InitDiff ==
    /\ pc = "dd_start"
    /\ \E r1, r2 \in RawJsons :
          /\ t1 = Snapshot(<<"P", "1">>, 1, NoneV, r1)
          /\ t2 = Snapshot(<<"P", "1">>, 2, NoneV, r2)
    /\ dd_rows = <<>>
    /\ df = <<>> /\ gi = 0 /\ records = <<>> /\ base = NoneV /\ base_change_dt = NoneV
    /\ idx = 0 /\ diff_rows = <<>> /\ calls = <<>>
    /\ rec_in = NoneV /\ dt_out = NoneV
    /\ path_a = <<>> /\ path_b = <<>> /\ field_a = Idle /\ field_b = Idle
    /\ diff_rows_1 = <<>> /\ _data = <<>> /\ _limit = 0 /\ last_add = Idle

CompareOnce ==
    /\ pc = "dd_start"
    /\ \E m \in Matchings(t1, t2) :
          dd_rows' = compare_rows(t1.d["policy_id"].s, 2, t1, t2, pick_change_dt(t1), m)
    /\ pc' = "dd_done"
    /\ UNCHANGED <<t1, t2, seqVars, dtVars, pathVars, fd1Vars, mctVars>>

SpecDiff == InitDiff /\ [][CompareOnce]_vars

-----------------------------------------------------------------------------
(* The script: the frame it loads and the groupby / compare loops.          *)

\* policy_ids of the frame, in the order of the query (ORDER BY policy_id).
Entities == << <<"P", "1">>, <<"P", "2">> >>

XS == {IntV(<<"1">>), IntV(<<"2">>), IntV(<<"3">>)}
LastMdfcnDts == {NoneV, StrV(<<"m">>)}

RowChoices == [x : XS, lastMdfcnDt : LastMdfcnDts]

\* The records of one policy_id, in ingested_at order.
MkGroup(policy_id, cs) ==
    [i \in DOMAIN cs |->
        Snapshot(policy_id, i, cs[i].lastMdfcnDt, MkDict([x |-> cs[i].x]))]

\* The frame of two policy_ids whose records are built from c1 and c2.
Frame(c1, c2) ==
    << [policy_id |-> Entities[1], records |-> MkGroup(Entities[1], c1)],
       [policy_id |-> Entities[2], records |-> MkGroup(Entities[2], c2)] >>

Init ==
    /\ pc = "loop"
    /\ \E n1 \in 1..(MaxRows - 1) : \E n2 \in 1..(MaxRows - n1) :
          \E c1 \in [1..n1 -> RowChoices], c2 \in [1..n2 -> RowChoices] :
             df = Frame(c1, c2)
    /\ gi = 1
    /\ records = <<>>
    /\ base = NoneV
    /\ base_change_dt = NoneV
    /\ idx = 0
    /\ diff_rows = <<>>
    /\ calls = <<>>
    /\ rec_in = NoneV /\ dt_out = NoneV
    /\ path_a = <<>> /\ path_b = <<>> /\ field_a = Idle /\ field_b = Idle
    /\ t1 = NoneV /\ t2 = NoneV /\ dd_rows = <<>>
    /\ diff_rows_1 = <<>> /\ _data = <<>> /\ _limit = 0 /\ last_add = Idle

\* for policy_id, group in df.groupby(...): a group of one record is passed over.
SkipGroup ==
    /\ pc = "loop"
    /\ gi <= Len(df)
    /\ Len(df[gi].records) <= 1
    /\ records' = df[gi].records
    /\ gi' = gi + 1
    /\ UNCHANGED <<pc, df, base, base_change_dt, idx, diff_rows, calls,
                   dtVars, pathVars, ddVars, fd1Vars, mctVars>>

\* ... otherwise its first record becomes the base.
StartGroup ==
    /\ pc = "loop"
    /\ gi <= Len(df)
    /\ Len(df[gi].records) > 1
    /\ records' = df[gi].records
    /\ base' = df[gi].records[1]
    /\ base_change_dt' = pick_change_dt(df[gi].records[1])
    /\ idx' = 2
    /\ pc' = "compare"
    /\ UNCHANGED <<df, gi, diff_rows, calls, dtVars, pathVars, ddVars,
                   fd1Vars, mctVars>>

\* One round of "for idx, other in enumerate(records[1:], start=2)"; the last
\* round of a group hands over to the next group.
Compare ==
    /\ pc = "compare"
    /\ LET other == records[idx]
       IN  /\ \E m \in Matchings(base, other) :
                diff_rows' = diff_rows \o
                    compare_rows(df[gi].policy_id, idx, base, other, base_change_dt, m)
           /\ calls' = Append(calls, [policy_id |-> df[gi].policy_id, compare_seq |-> idx,
                                      base |-> base, other |-> other])
           /\ base' = next_base(base, other)
           /\ base_change_dt' = next_base_change_dt(base_change_dt, pick_change_dt(other))
    /\ IF idx < Len(records)
       THEN idx' = idx + 1 /\ UNCHANGED <<pc, gi>>
       ELSE pc' = "loop" /\ gi' = gi + 1 /\ UNCHANGED idx
    /\ UNCHANGED <<df, records, dtVars, pathVars, ddVars, fd1Vars, mctVars>>

\* The groupby loop is over; the rows go to the console and the CSV file.
Finish ==
    /\ pc = "loop"
    /\ gi > Len(df)
    /\ pc' = "done"
    /\ UNCHANGED <<seqVars, dtVars, pathVars, ddVars, fd1Vars, mctVars>>

Next == SkipGroup \/ StartGroup \/ Compare \/ Finish

Spec == Init /\ [][Next]_vars

-----------------------------------------------------------------------------
(* tools/find_diff_1.py: the same query without the ingested_at order, the  *)
(* same DeepDiff call, and a base that is set once per policy_id.  It is    *)
(* run after find_diff_2.py, on the frame that script loaded, so that the   *)
(* two reports can be laid side by side.                                    *)

\* path.replace("root['raw_json']", "").replace("root", "").strip(): the
\* first replace takes "root" and a leading raw_json key away, the second
\* the "root" that is left when the path does not start with that key.  What
\* stays is empty or runs from "[" to "]", so strip() finds nothing to
\* remove.  (No key of the frames holds the text "root".)
field_1(p) ==
    IF p # <<>> /\ Head(p) = Key("raw_json") THEN SegsStr(Tail(p)) ELSE SegsStr(p)

Row_1(policy_id, k, rep) ==
    [policy_id  |-> policy_id,
     record_idx |-> k,
     field      |-> field_1(rep.path),
     old_value  |-> rep.old,
     new_value  |-> rep.new]

compare_rows_1(policy_id, k, b, other, m) ==
    LET changed == values_changed(DeepDiff(b, other, m))
    IN  [i \in DOMAIN changed |-> Row_1(policy_id, k, changed[i])]

\* base = records[0] is the only assignment to base: the body of the inner
\* loop leaves it alone.
base_1_rolled(b, other) == other
base_1(b, other) == b

\* find_diff_1.py starts once find_diff_2.py has ended.
Start1 ==
    /\ pc = "done"
    /\ pc' = "loop_1"
    /\ gi' = 1
    /\ records' = <<>>
    /\ base' = NoneV
    /\ idx' = 0
    /\ diff_rows_1' = <<>>
    /\ UNCHANGED <<df, base_change_dt, diff_rows, calls, dtVars, pathVars, ddVars, mctVars>>

\* if len(records) > 1 fails: nothing is done for this policy_id.
SkipGroup1 ==
    /\ pc = "loop_1"
    /\ gi <= Len(df)
    /\ ~(Len(df[gi].records) > 1)
    /\ records' = df[gi].records
    /\ gi' = gi + 1
    /\ UNCHANGED <<pc, df, base, base_change_dt, idx, diff_rows, calls,
                   dtVars, pathVars, ddVars, fd1Vars, mctVars>>

StartGroup1 ==
    /\ pc = "loop_1"
    /\ gi <= Len(df)
    /\ Len(df[gi].records) > 1
    /\ records' = df[gi].records
    /\ base' = df[gi].records[1]
    /\ idx' = 2
    /\ pc' = "compare_1"
    /\ UNCHANGED <<df, gi, base_change_dt, diff_rows, calls,
                   dtVars, pathVars, ddVars, fd1Vars, mctVars>>

\* One round of "for idx, other in enumerate(records[1:], start=2)".
Compare1 ==
    /\ pc = "compare_1"
    /\ LET other == records[idx]
       IN  /\ \E m \in Matchings(base, other) :
                diff_rows_1' = diff_rows_1 \o
                    compare_rows_1(df[gi].policy_id, idx, base, other, m)
           /\ base' = base_1(base, other)
    /\ IF idx < Len(records)
       THEN idx' = idx + 1 /\ UNCHANGED <<pc, gi>>
       ELSE pc' = "loop_1" /\ gi' = gi + 1 /\ UNCHANGED idx
    /\ UNCHANGED <<df, records, base_change_dt, diff_rows, calls,
                   dtVars, pathVars, ddVars, mctVars>>

Finish1 ==
    /\ pc = "loop_1"
    /\ gi > Len(df)
    /\ pc' = "done_1"
    /\ UNCHANGED <<seqVars, dtVars, pathVars, ddVars, fd1Vars, mctVars>>

Next1 == Start1 \/ SkipGroup1 \/ StartGroup1 \/ Compare1 \/ Finish1

NextBoth == Next \/ Next1

SpecBoth == Init /\ [][NextBoth]_vars

-----------------------------------------------------------------------------
(* tools/generate_data_for_ai.py: MissingCodeTracker, the record of the     *)
(* code values that have no label, a few per field.                         *)

\* def __init__(self, per_field_limit: int = 5); main() takes the default.
per_field_limit == 5

\* self._data[field] of a defaultdict(set): the bucket of the field, made
\* empty on the first access.
with_bucket(data, field) ==
    [f \in DOMAIN data \cup {field} |-> IF f \in DOMAIN data THEN data[f] ELSE {}]

\* MissingCodeTracker.add with one place more in each bucket.
add_one_more(data, limit, field, code) ==
    LET stripped == PyStrip(code)
        touched  == with_bucket(data, field)
    IN  IF stripped = <<>> THEN data
        ELSE IF Cardinality(touched[field]) <= limit
             THEN [touched EXCEPT ![field] = @ \cup {stripped}]
             ELSE touched

\* MissingCodeTracker.add: _data after add(field, code).
add(data, limit, field, code) ==
    LET stripped == PyStrip(code)                  \* code = str(code).strip()
        touched  == with_bucket(data, field)       \* bucket = self._data[field]
    IN  IF stripped = <<>> THEN data               \* if not code: return
        ELSE IF Cardinality(touched[field]) < limit
             THEN [touched EXCEPT ![field] = @ \cup {stripped}]
             ELSE touched

\* MissingCodeTracker.has_missing: bool(self._data).
has_missing == DOMAIN _data # {}

\* The payload keys and the code texts handed to add: blank ones, one more
\* distinct code than a bucket takes, and codes with blanks around them.
Fields == {"f", "g"}
CodeLetters == {"a", "b", "c", "d", "e", "f"}
CodeInputs ==
    {<<>>, <<" ">>} \cup {<<c>> : c \in CodeLetters}
    \cup {<<" ", "a">>, <<"b", " ">>}

NoCall == [field |-> "", code |-> <<>>]

\* missing_codes = MissingCodeTracker()
InitTracker ==
    /\ pc = "tracking"
    /\ _data = <<>>
    /\ _limit = per_field_limit
    /\ last_add = NoCall
    /\ df = <<>> /\ gi = 0 /\ records = <<>> /\ base = NoneV /\ base_change_dt = NoneV
    /\ idx = 0 /\ diff_rows = <<>> /\ calls = <<>>
    /\ rec_in = NoneV /\ dt_out = NoneV
    /\ path_a = <<>> /\ path_b = <<>> /\ field_a = Idle /\ field_b = Idle
    /\ t1 = NoneV /\ t2 = NoneV /\ dd_rows = <<>>
    /\ diff_rows_1 = <<>>

\* missing_tracker.add(key, code), from transform_policy.
Add ==
    /\ pc = "tracking"
    /\ \E field \in Fields, code \in CodeInputs :
          /\ _data' = add(_data, _limit, field, code)
          /\ last_add' = [field |-> field, code |-> code]
    /\ UNCHANGED <<pc, _limit, seqVars, dtVars, pathVars, ddVars, fd1Vars>>

SpecTracker == InitTracker /\ [][Add]_vars

-----------------------------------------------------------------------------
(* Vocabulary of the properties. *)

\* Every path into a value: the value itself, its keys, its list indices.
RECURSIVE PathsOf(_)
PathsOf(v) ==
    {<<>>} \cup
    (IF v.t = "dict"
     THEN UNION {{<<Key(k)>> \o q : q \in PathsOf(v.d[k])} : k \in DOMAIN v.d}
     ELSE IF v.t = "list"
     THEN UNION {{<<Index(i - 1)>> \o q : q \in PathsOf(v.l[i])} : i \in DOMAIN v.l}
     ELSE {})

RECURSIVE ValueAt(_, _)
ValueAt(v, p) ==
    IF p = <<>> THEN v
    ELSE IF Head(p).key THEN ValueAt(v.d[Head(p).name], Tail(p))
         ELSE ValueAt(v.l[Head(p).i + 1], Tail(p))

GroupOf(policy_id) == CHOOSE g \in DOMAIN df : df[g].policy_id = policy_id
RecordsOf(policy_id) == df[GroupOf(policy_id)].records

\* The rows / the DeepDiff calls of one policy_id, in the order they were made.
RowsIn(policy_id) == SelectSeq(diff_rows, LAMBDA row : row.policy_id = policy_id)
CallsOf(policy_id) == SelectSeq(calls, LAMBDA c : c.policy_id = policy_id)

\* The rows the comparisons from..to of a chain give when each record is
\* compared with the one before it.  (The records of the frames hold no
\* list, so DeepDiff has no items to pair.)
RECURSIVE ChainRows(_, _, _)
ChainRows(policy_id, from, to) ==
    IF from > to THEN <<>>
    ELSE LET recs == RecordsOf(policy_id)
         IN  ChainRows(policy_id, from, to - 1)
             \o compare_rows(policy_id, to, recs[to - 1], recs[to],
                             pick_change_dt(recs[to - 1]), {})

\* The groupby loop stands between two policy_ids (or before the first, or
\* after the last).
BetweenGroups == pc \in {"loop", "done"}

-----------------------------------------------------------------------------
(* C1 - base roll-forward: every row emitted with compare_seq = k has its   *)
(* old_value from record k-1 and its new_value from record k of its         *)
(* policy_id, at a path that formats to the row's field.                    *)
C1_RollForward ==
    \A i \in DOMAIN diff_rows :
        LET row  == diff_rows[i]
            recs == RecordsOf(row.policy_id)
            k    == row.compare_seq
        IN  /\ k \in 2..Len(recs)
            /\ \E p \in PathsOf(recs[k - 1]), q \in PathsOf(recs[k]) :
                  /\ path_to_field(p) = row.field
                  /\ path_to_field(q) = row.field
                  /\ ValueAt(recs[k - 1], p) = row.old_value
                  /\ ValueAt(recs[k], q) = row.new_value

\* A third record whose row carries the value of the second record where the
\* first record holds another one (x: 1, 2, 3 gives the row 3: 2 -> 3).
C1_Witness ==
    \E i \in DOMAIN diff_rows :
        LET row  == diff_rows[i]
            recs == RecordsOf(row.policy_id)
        IN  /\ row.compare_seq = 3
            /\ row.field = "x"
            /\ row.old_value = recs[2].d["raw_json"].d["x"]
            /\ row.old_value # recs[1].d["raw_json"].d["x"]
            /\ row.new_value # recs[1].d["raw_json"].d["x"]

(* C2 - chain length: the comparisons of a policy_id with N records are     *)
(* exactly N-1, the i-th comparing record i with record i+1 under           *)
(* compare_seq i+1; every compare_seq lies in 2..N; a policy_id with one    *)
(* record has no comparison and no row.                                     *)
C2_ChainLength ==
    /\ \A g \in DOMAIN df :
          LET cs   == CallsOf(df[g].policy_id)
              recs == df[g].records
          IN  /\ Len(cs) <= Len(recs) - 1
              /\ \A i \in DOMAIN cs :
                    /\ cs[i].compare_seq = i + 1
                    /\ cs[i].base = recs[i]
                    /\ cs[i].other = recs[i + 1]
              /\ (g < gi) => Len(cs) = Len(recs) - 1
              /\ Len(recs) = 1 => cs = <<>> /\ RowsIn(df[g].policy_id) = <<>>
    /\ \A i \in DOMAIN diff_rows :
          diff_rows[i].compare_seq \in 2..Len(RecordsOf(diff_rows[i].policy_id))

\* The run is over, one policy_id had three records and two comparisons, the
\* other had one record and none.
C2_Witness ==
    /\ pc = "done"
    /\ \E g, h \in DOMAIN df :
          /\ Len(df[g].records) = 3 /\ Len(CallsOf(df[g].policy_id)) = 2
          /\ Len(df[h].records) = 1 /\ CallsOf(df[h].policy_id) = <<>>

(* C4 - timestamp chaining: a row with compare_seq = k carries              *)
(* base_change_dt = pick_change_dt(record k-1) and change_dt =              *)
(* pick_change_dt(record k); between two comparisons base_change_dt is the  *)
(* change_dt of the comparison just made, whether it emitted rows or not.   *)
C4_TimestampChain ==
    /\ \A i \in DOMAIN diff_rows :
          LET row  == diff_rows[i]
              recs == RecordsOf(row.policy_id)
          IN  /\ row.compare_seq \in 2..Len(recs)
              /\ row.base_change_dt = pick_change_dt(recs[row.compare_seq - 1])
              /\ row.change_dt = pick_change_dt(recs[row.compare_seq])
    /\ pc = "compare" => base_change_dt = pick_change_dt(records[idx - 1])

\* A row of the third record whose base_change_dt is the second record's
\* instant, not the first one's, the second comparison having emitted no row.
C4_Witness ==
    \E i \in DOMAIN diff_rows :
        LET row  == diff_rows[i]
            recs == RecordsOf(row.policy_id)
        IN  /\ row.compare_seq = 3
            /\ \A j \in DOMAIN diff_rows :
                  diff_rows[j].policy_id = row.policy_id => diff_rows[j].compare_seq = 3
            /\ row.base_change_dt = pick_change_dt(recs[2])
            /\ row.base_change_dt # pick_change_dt(recs[1])
            /\ row.base_change_dt # row.change_dt

(* C10 - per-entity atomic output, as claimed: in every state the output    *)
(* holds, for each policy_id, either none of its rows or all of them.       *)
C10_NoneOrAll ==
    \A g \in DOMAIN df :
        LET policy_id == df[g].policy_id
        IN  \/ RowsIn(policy_id) = <<>>
            \/ RowsIn(policy_id) = ChainRows(policy_id, 2, Len(df[g].records))

(* C10, amended: the rows of a policy_id are appended comparison by         *)
(* comparison; between two policy_ids the output holds all the rows of the  *)
(* policy_ids already passed and none of the others, and inside a chain it  *)
(* holds the rows of the comparisons made so far.                           *)
C10_AtomicBetweenGroups ==
    \A g \in DOMAIN df :
        LET policy_id == df[g].policy_id
            n         == Len(df[g].records)
        IN  /\ g < gi => RowsIn(policy_id) = ChainRows(policy_id, 2, n)
            /\ g > gi => RowsIn(policy_id) = <<>>
            /\ (g = gi /\ BetweenGroups) => RowsIn(policy_id) = <<>>
            /\ (g = gi /\ pc = "compare") =>
                  RowsIn(policy_id) = ChainRows(policy_id, 2, idx - 1)

\* Between the two policy_ids: the first has all its rows and the second,
\* which will have some, has none yet.
C10_Witness ==
    /\ pc = "loop"
    /\ gi = 2
    /\ RowsIn(df[1].policy_id) # <<>>
    /\ RowsIn(df[1].policy_id) = ChainRows(df[1].policy_id, 2, Len(df[1].records))
    /\ RowsIn(df[2].policy_id) = <<>>
    /\ ChainRows(df[2].policy_id, 2, Len(df[2].records)) # <<>>

-----------------------------------------------------------------------------
(* Properties of one comparison (SpecDiff). *)

\* The keys the five excluded paths name, and what path_to_field makes of them.
ExcludedKeys == {"lastMdfcnDt", "frstRegDt", "ingested_at", "record_hash", "raw_ingest_id"}
ExcludedFields == {path_to_field(<<Key(k)>>) : k \in ExcludedKeys}

RowsOfField(field) == SelectSeq(dd_rows, LAMBDA row : row.field = field)

Compared == pc = "dd_done"

X1 == Get(t1.d["raw_json"], "x")
X2 == Get(t2.d["raw_json"], "x")
HasX == "x" \in DOMAIN t1.d["raw_json"].d /\ "x" \in DOMAIN t2.d["raw_json"].d
Tags1 == t1.d["raw_json"].d["tags"].l
Tags2 == t2.d["raw_json"].d["tags"].l

Count(q, e) == Cardinality({i \in DOMAIN q : q[i] = e})
SameMultiset(q1, q2) == \A e \in Range(q1) \cup Range(q2) : Count(q1, e) = Count(q2, e)

Scalar(v) == v.t \in {"none", "str", "int"}

\* The record without its excluded top-level keys.
WithoutExcluded(rec) == [k \in DOMAIN rec.d \ ExcludedKeys |-> rec.d[k]]

(* C3 - exclusion invariant, as claimed: no row of any comparison has a     *)
(* field equal to the formatted form of an excluded path.                   *)
C3_NoExcludedField ==
    \A i \in DOMAIN dd_rows : dd_rows[i].field \notin ExcludedFields

(* C6 - order-insensitivity, as claimed: two lists at one path give no row  *)
(* when they hold the same items as multisets and a row when they do not.   *)
C6_MultisetCompare ==
    Compared =>
        /\ SameMultiset(Tags1, Tags2) => RowsOfField("tags") = <<>>
        /\ ~SameMultiset(Tags1, Tags2) => RowsOfField("tags") # <<>>

(* C7 - type mismatch and raw equality, as claimed: values of different     *)
(* types at one path give exactly one row, with the two raw values; two     *)
(* scalars give a row exactly when they are not equal.                      *)
C7_TypeMismatchRow ==
    (Compared /\ HasX) =>
        /\ X1.t # X2.t =>
              /\ Len(RowsOfField("x")) = 1
              /\ RowsOfField("x")[1].old_value = X1
              /\ RowsOfField("x")[1].new_value = X2
        /\ (Scalar(X1) /\ Scalar(X2)) => (RowsOfField("x") # <<>> <=> X1 # X2)

(* C9 - idempotence: two records that are equal outside the excluded paths  *)
(* give no row.                                                             *)
C9_Idempotent ==
    (Compared /\ WithoutExcluded(t1) = WithoutExcluded(t2)) => dd_rows = <<>>

\* Two records of one policy_id that differ in ingested_at only, holding a
\* list and a nested mapping, have been compared.
C9_Witness ==
    /\ Compared
    /\ t1 # t2
    /\ WithoutExcluded(t1) = WithoutExcluded(t2)
    /\ Len(Tags1) = 2
    /\ X1.t = "dict"
    /\ dd_rows = <<>>

-----------------------------------------------------------------------------
(* Properties of path_to_field (SpecFormat). *)

Formatted == pc = "fmt_done"

WithoutWrapper(parts) ==
    IF parts # <<>> /\ parts[1] = "raw_json" THEN Tail(parts) ELSE parts

\* A path of dictionary keys only, none holding a '.', the first not the
\* raw_json wrapper.
PlainKeyPath(p) ==
    /\ \A i \in DOMAIN p : p[i].key /\ p[i].name \notin DottedKeys
    /\ p # <<>> => p[1].name # "raw_json"

-----------------------------------------------------------------------------
(* Properties of pick_change_dt (SpecResolve). *)

Resolved == pc = "dt_done"

Primary  == Get(rec_in, "lastMdfcnDt")
Fallback == Get(rec_in, "ingested_at")

\* Missing, None or empty text.
Empty(v) == v.t = "none" \/ (v.t = "str" /\ v.s = <<>>)
\* Missing, None, empty or whitespace-only text.
Blank(v) == v.t = "none" \/ (v.t = "str" /\ \A i \in DOMAIN v.s : v.s[i] \in Whitespace)

\* The one textual form: ISO text of a timestamp, trimmed text otherwise.
Normalized(v) ==
    IF v.t \in {"timestamp", "datetime"} THEN StrV(IsoFormat(v.s)) ELSE StrV(PyStrip(v.s))

(* C5 - timestamp resolution, as claimed: the normalized primary when it    *)
(* is present, the normalized fallback when the primary is lacking, and     *)
(* None when neither is present or both are empty or whitespace-only.       *)
C5_AbsentWhenBlank ==
    Resolved =>
        /\ ~Blank(Primary) => dt_out = Normalized(Primary)
        /\ (Empty(Primary) /\ ~Blank(Fallback)) => dt_out = Normalized(Fallback)
        /\ (Blank(Primary) /\ Blank(Fallback)) => dt_out = NoneV

(* C5, amended: the normalized lastMdfcnDt when it is present and not       *)
(* empty; otherwise the normalized ingested_at, and None only when          *)
(* ingested_at is missing or None; when both are empty or whitespace-only   *)
(* the result is None or the empty text.                                    *)
C5_ResolvePriority ==
    Resolved =>
        /\ ~Empty(Primary) => dt_out = Normalized(Primary)
        /\ (Empty(Primary) /\ Fallback.t # "none") => dt_out = Normalized(Fallback)
        /\ (Empty(Primary) /\ Fallback.t = "none") => dt_out = NoneV
        /\ (Blank(Primary) /\ Blank(Fallback)) => dt_out \in {NoneV, StrV(<<>>)}

\* Both fields were whitespace-only text and the result is the empty text.
C5_Witness ==
    /\ Resolved
    /\ Primary.t = "str" /\ Primary.s # <<>> /\ Blank(Primary)
    /\ Fallback.t = "str" /\ Fallback.s # <<>> /\ Blank(Fallback)
    /\ dt_out = StrV(<<>>)

-----------------------------------------------------------------------------
(* The run of the script as the per-entity state machine. *)

\* Where the run stands for the g-th policy_id: not reached yet, inside its
\* chain with a base held, or past it.
SeqState(g) ==
    IF g < gi THEN "DONE"
    ELSE IF g = gi /\ pc = "compare" THEN "HAVE_BASE"
    ELSE "AWAITING_BASE"

\* How often record k of the g-th policy_id has been the "other" / the base
\* of a comparison.
OtherCount(g, k) ==
    Cardinality({i \in DOMAIN calls : calls[i].other = df[g].records[k]})
BaseCount(g, k) ==
    Cardinality({i \in DOMAIN calls : calls[i].base = df[g].records[k]})

\* Each record has been taken at most once in each role, the first one never
\* as "other"; inside a chain exactly the records before idx have been
\* taken and the last of them is the base; past a chain every record has
\* been taken, the first as the first base, each later one as "other" and,
\* but for the last, as the next base.
SinglePass ==
    \A g \in DOMAIN df :
        LET n == Len(df[g].records)
        IN  \A k \in 1..n :
               /\ OtherCount(g, k) <= 1
               /\ BaseCount(g, k) <= 1
               /\ k = 1 => OtherCount(g, k) = 0
               /\ SeqState(g) = "AWAITING_BASE" =>
                     OtherCount(g, k) = 0 /\ BaseCount(g, k) = 0
               /\ SeqState(g) = "HAVE_BASE" =>
                     /\ base = df[g].records[idx - 1]
                     /\ OtherCount(g, k) = (IF 2 <= k /\ k < idx THEN 1 ELSE 0)
                     /\ BaseCount(g, k) = (IF k < idx - 1 THEN 1 ELSE 0)
               /\ SeqState(g) = "DONE" =>
                     /\ OtherCount(g, k) = (IF 2 <= k THEN 1 ELSE 0)
                     /\ BaseCount(g, k) = (IF k < n THEN 1 ELSE 0)

\* The moves of the state machine.  A policy_id of one record is passed in
\* one step: its only record is read and the records are exhausted.
Moves ==
    \A g \in DOMAIN df :
        \/ SeqState(g)' = SeqState(g)
        \/ SeqState(g) = "AWAITING_BASE" /\ SeqState(g)' = "HAVE_BASE"
              /\ base' = df[g].records[1]
        \/ SeqState(g) = "HAVE_BASE" /\ SeqState(g)' = "DONE"
              /\ idx = Len(df[g].records)
        \/ SeqState(g) = "AWAITING_BASE" /\ SeqState(g)' = "DONE"
              /\ Len(df[g].records) = 1

RECURSIVE RowsFrom(_)
RowsFrom(g) == IF g > Len(df) THEN 0 ELSE Len(df[g].records) + RowsFrom(g + 1)

\* The steps the run still has to make: one for each record not yet taken
\* and one to leave the loop.
StepsLeft ==
    IF pc = "done" THEN 0
    ELSE 1 + RowsFrom(gi) - (IF pc = "compare" THEN idx - 1 ELSE 0)

\* The run is over exactly when every policy_id is DONE, and until then it
\* can make a step: between two policy_ids the loop goes on or ends, and
\* inside a chain there is a record to take and a report to get for it.
EndsDone ==
    /\ pc = "done" => \A g \in DOMAIN df : SeqState(g) = "DONE"
    /\ pc = "loop" => ENABLED (SkipGroup \/ StartGroup \/ Finish)
    /\ pc = "compare" =>
          /\ gi \in DOMAIN df
          /\ idx \in 2..Len(records)
          /\ Matchings(base, records[idx]) # {}
    /\ pc \in {"loop", "compare", "done"}

(* C11 - sequencer state machine: every policy_id starts in AWAITING_BASE,  *)
(* moves to HAVE_BASE with its first record, stays there for each later     *)
(* record and is DONE when its records are exhausted; every record is       *)
(* taken once, never again; and the run reaches DONE for every policy_id:   *)
(* it can always make a step until then, and each step leaves one step      *)
(* less to make.                                                            *)
C11_StateMachine ==
    /\ \A g \in DOMAIN df : SeqState(g) = "AWAITING_BASE"
    /\ [](SinglePass /\ EndsDone /\ StepsLeft >= 0)
    /\ [][Moves /\ StepsLeft' = StepsLeft - 1]_vars

\* The first policy_id is inside its chain of three records, the second
\* record having just become the base, and the other policy_id is waiting.
C11_Witness ==
    /\ SeqState(1) = "HAVE_BASE"
    /\ SeqState(2) = "AWAITING_BASE"
    /\ Len(df[1].records) = 3
    /\ idx = 3
    /\ base = df[1].records[2]
    /\ OtherCount(1, 2) = 1 /\ BaseCount(1, 1) = 1 /\ BaseCount(1, 2) = 0

-----------------------------------------------------------------------------
(* The two scripts on one frame. *)

RowsIn_1(policy_id) == SelectSeq(diff_rows_1, LAMBDA row : row.policy_id = policy_id)

\* What a report says of one policy_id: record number, old and new value of
\* each row, in the order of the rows.
Changes_1(policy_id) ==
    LET rows == RowsIn_1(policy_id)
    IN  [i \in DOMAIN rows |->
            <<rows[i].record_idx, rows[i].old_value, rows[i].new_value>>]
Changes_2(policy_id) ==
    LET rows == RowsIn(policy_id)
    IN  [i \in DOMAIN rows |->
            <<rows[i].compare_seq, rows[i].old_value, rows[i].new_value>>]

\* The x values of the records of the g-th policy_id, in the loaded order.
XsOf(g) == [k \in DOMAIN df[g].records |-> df[g].records[k].d["raw_json"].d["x"]]

One   == IntV(<<"1">>)
Two   == IntV(<<"2">>)
Three == IntV(<<"3">>)

(* C12 - find_diff_1.py compares with the first record: its base is the     *)
(* first loaded record of the policy_id during the whole inner loop, so     *)
(* every row with record_idx = k (k >= 2) has its old_value from the first  *)
(* record and its new_value from record k, at one path that gives the       *)
(* row's field; for records with x = 1, 2, 3 it reports (2: 1 -> 2) and     *)
(* (3: 1 -> 3), where find_diff_2.py reports (2: 1 -> 2) and (3: 2 -> 3).   *)
C12_CompareToFirst ==
    /\ pc = "compare_1" => base = records[1] /\ records = df[gi].records
    /\ pc \in {"loop_1", "compare_1", "done_1"} =>
          \A i \in DOMAIN diff_rows_1 :
              LET row  == diff_rows_1[i]
                  recs == RecordsOf(row.policy_id)
                  k    == row.record_idx
              IN  /\ k \in 2..Len(recs)
                  /\ \E p \in PathsOf(recs[1]) \cap PathsOf(recs[k]) :
                        /\ field_1(p) = row.field
                        /\ ValueAt(recs[1], p) = row.old_value
                        /\ ValueAt(recs[k], p) = row.new_value
    /\ pc = "done_1" =>
          \A g \in DOMAIN df :
              XsOf(g) = <<One, Two, Three>> =>
                 /\ Changes_1(df[g].policy_id) = << <<2, One, Two>>, <<3, One, Three>> >>
                 /\ Changes_2(df[g].policy_id) = << <<2, One, Two>>, <<3, Two, Three>> >>
                 /\ Changes_1(df[g].policy_id) # Changes_2(df[g].policy_id)

\* Both scripts have run over a policy_id with x = 1, 2, 3; the third
\* record's row starts from 1 in the one report and from 2 in the other.
C12_Witness ==
    /\ pc = "done_1"
    /\ XsOf(1) = <<One, Two, Three>>
    /\ \E i \in DOMAIN diff_rows_1 :
          /\ diff_rows_1[i].record_idx = 3
          /\ diff_rows_1[i].field = "['x']"
          /\ diff_rows_1[i].old_value = One /\ diff_rows_1[i].new_value = Three
    /\ \E i \in DOMAIN diff_rows :
          /\ diff_rows[i].compare_seq = 3
          /\ diff_rows[i].old_value = Two /\ diff_rows[i].new_value = Three

-----------------------------------------------------------------------------
(* MissingCodeTracker. *)

\* The codes kept for a field; none for a field that was never touched.
Bucket(field) == IF field \in DOMAIN _data THEN _data[field] ELSE {}

BucketAfter(field) == IF field \in DOMAIN _data' THEN _data'[field] ELSE {}

IsFull(field) == Cardinality(Bucket(field)) >= _limit

\* Every bucket holds at most _limit codes, each of them non-empty and
\* without blanks at its ends.
Bounded ==
    \A field \in DOMAIN _data :
        /\ Cardinality(_data[field]) <= _limit
        /\ \A code \in _data[field] : code # <<>> /\ PyStrip(code) = code

\* What the latest add did: nothing at all for a blank code, nothing for a
\* field whose bucket was full, and nothing to the other fields.
AddStep ==
    LET field == last_add'.field
        code  == last_add'.code
    IN  /\ PyStrip(code) = <<>> => _data' = _data /\ has_missing' = has_missing
        /\ IsFull(field) => _data' = _data
        /\ \A other \in Fields \ {field} : BucketAfter(other) = Bucket(other)
        /\ BucketAfter(field) \in {Bucket(field), Bucket(field) \cup {PyStrip(code)}}

(* C13 - after any sequence of MissingCodeTracker.add calls every field's   *)
(* code set has at most per_field_limit elements, all of them non-empty     *)
(* trimmed codes; an add whose trimmed code is empty leaves the tracker as  *)
(* it was, has_missing() included; and an add for a field whose set is      *)
(* full changes nothing.                                                    *)
C13_TrackerBounded ==
    /\ [](Bounded /\ _limit = per_field_limit)
    /\ [][AddStep]_vars

\* The bucket of field "f" is full and the latest add offered it one more
\* code, which it does not hold.
C13_Witness ==
    /\ last_add.field = "f"
    /\ Cardinality(Bucket("f")) = per_field_limit
    /\ PyStrip(last_add.code) # <<>>
    /\ PyStrip(last_add.code) \notin Bucket("f")
    /\ has_missing

====
